---------------------------- MODULE Spec2Model ----------------------------
(* A model of bot2.py: the per-user URL and task maps, the three message   *)
(* handlers (handle_url, download_video, cancel_download), the job task    *)
(* run_download with its child processes and staging files, the progress   *)
(* parser and the progress throttles.                                      *)
EXTENDS Integers, Sequences, FiniteSets, TLC

(***************************************************************************)
(* Bounds of the model.                                                    *)
(***************************************************************************)
\* number of job tasks download_video may create in one run
MaxJobs == 2
\* number of fire-and-forget edit tasks of one job waiting to run
MaxPending == 1
\* length of the percent sequences fed to the throttles
MaxSamples == 3
\* number of reports counted on a stream of samples of any length
MaxReports == 22

(***************************************************************************)
(* Program constants.                                                      *)
(***************************************************************************)
\* for attempt in range(3)
MAX_ATTEMPTS == 3
\* await asyncio.sleep(5)
RETRY_DELAY == 5
\* pct % 5 == 0
BUCKET == 5
\* progress = {"pct": -1} and last_update = {"pct": -1}
NO_PCT == -1
\* \d{1,3}
MAX_INT_DIGITS == 3

(***************************************************************************)
(* Text.  A line of child output is a sequence of one-character strings.   *)
(***************************************************************************)
Digits == {"0", "1", "2", "3", "4", "5", "6", "7", "8", "9"}
Spaces == {" "}
EtaChars == Digits \cup {":"}
SpeedChars == Digits \cup {"."}
SpeedPrefix == {"K", "M", "G"}

\* the character at position i, "" past either end
At(line, i) == IF i \in 1..Len(line) THEN line[i] ELSE ""

\* length of the longest run of characters of class S that starts at i
RECURSIVE RunLen(_, _, _)
RunLen(line, i, S) ==
  IF At(line, i) \in S THEN 1 + RunLen(line, i + 1, S) ELSE 0

\* the literal lit occurs at position i
HasLit(line, i, lit) == \A k \in 1..Len(lit) : At(line, i + k - 1) = lit[k]

DigitVal(c) ==
  CASE c = "0" -> 0 [] c = "1" -> 1 [] c = "2" -> 2 [] c = "3" -> 3
    [] c = "4" -> 4 [] c = "5" -> 5 [] c = "6" -> 6 [] c = "7" -> 7
    [] c = "8" -> 8 [] c = "9" -> 9

\* int(float(text)) of "ddd.fff": the value of the digits before the point
RECURSIVE IntOf(_)
IntOf(ds) ==
  IF ds = <<>> THEN 0
  ELSE 10 * IntOf(SubSeq(ds, 1, Len(ds) - 1)) + DigitVal(ds[Len(ds)])

Min(S) == CHOOSE x \in S : \A y \in S : x <= y

(***************************************************************************)
(* parse_progress, lines 189-194.                                          *)
(*   m = re.search(r"(\d{1,3}\.\d+)%.*?ETA\s+([0-9:]+)", line)             *)
(*   speed_match = re.search(r"at\s+([0-9\.]+[KMG]?B/s)", line)            *)
(***************************************************************************)
\* positions k at which ETA\s+[0-9:]+ matches
EtaAt(line, k) ==
  /\ HasLit(line, k, <<"E", "T", "A">>)
  /\ RunLen(line, k + 3, Spaces) >= 1
  /\ RunLen(line, k + 3 + RunLen(line, k + 3, Spaces), EtaChars) >= 1

\* the whole pattern matches with its first character at position i
PctMatchAt(line, i) ==
  LET d == RunLen(line, i, Digits)
      f == RunLen(line, i + d + 1, Digits)
  IN  /\ d >= 1
      /\ d <= MAX_INT_DIGITS
      /\ At(line, i + d) = "."
      /\ f >= 1
      /\ At(line, i + d + 1 + f) = "%"
      /\ \E k \in (i + d + f + 2)..Len(line) : EtaAt(line, k)

PctMatches(line) == {i \in 1..Len(line) : PctMatchAt(line, i)}

\* at\s+([0-9\.]+[KMG]?B/s) matches with its first character at position i;
\* the value is the end of group 1, or 0 when there is no match at i
SpeedEndAt(line, i) ==
  LET w == RunLen(line, i + 2, Spaces)
      p == i + 2 + w
      r == RunLen(line, p, SpeedChars)
      q == IF At(line, p + r) \in SpeedPrefix THEN p + r + 1 ELSE p + r
  IN  IF /\ HasLit(line, i, <<"a", "t">>)
         /\ w >= 1
         /\ r >= 1
         /\ HasLit(line, q, <<"B", "/", "s">>)
      THEN q + 2
      ELSE 0

SpeedMatches(line) == {i \in 1..Len(line) : SpeedEndAt(line, i) > 0}

NoMatch == [match |-> FALSE]

\* the sample parse_progress computes from a line (lines 189-194), or NoMatch
ParseProgress(line) ==
  IF PctMatches(line) = {} THEN NoMatch
  ELSE
    LET i == Min(PctMatches(line))
        d == RunLen(line, i, Digits)
        f == RunLen(line, i + d + 1, Digits)
        k == Min({x \in (i + d + f + 2)..Len(line) : EtaAt(line, x)})
        e == k + 3 + RunLen(line, k + 3, Spaces)
        s == IF SpeedMatches(line) = {} THEN 0 ELSE Min(SpeedMatches(line))
        sp == s + 2 + RunLen(line, s + 2, Spaces)
    IN  [match |-> TRUE,
         percent |-> IntOf(SubSeq(line, i, i + d - 1)),
         speed |-> IF s = 0 THEN <<"?">>
                   ELSE SubSeq(line, sp, SpeedEndAt(line, s)),
         eta |-> SubSeq(line, e, e + RunLen(line, e, EtaChars) - 1)]

(***************************************************************************)
(* The progress throttles.                                                 *)
(***************************************************************************)
\* FetchShouldReport without the comparison with the last report
FetchShouldReportAny(pct, last) == pct % BUCKET = 0

\* FetchShouldReport without the bucket test
FetchShouldReportChanged(pct, last) == pct # last

\* line 195: if pct % 5 == 0 and pct != progress["pct"]
FetchShouldReport(pct, last) == pct % BUCKET = 0 /\ pct # last

\* line 283: if pct % 5 == 0 and pct != last_update["pct"]
UploadShouldReport(pct, last) == pct % BUCKET = 0 /\ pct # last

(***************************************************************************)
(* The bot: requesters, their messages, and the job tasks.                 *)
(***************************************************************************)
Users == {"u1", "u2"}
Nobody == "nobody"
NoUrl == <<>>
\* message texts, as sequences of tokens: a link, a text that is no link, and
\* a text that is no link but holds the token line 116 looks for
Texts == { <<"https://", "youtube.com", "/watch?v=a">>,
           <<"hello">>,
           <<"see", "youtu.be">> }
\* callback data: the three buttons, a number that is no button, a non-number
QUALITY_OPTIONS == {<<"3", "6", "0">>, <<"4", "8", "0">>, <<"7", "2", "0">>}
CallbackData == QUALITY_OPTIONS \cup {<<"1", "0", "8", "0">>, <<"a", "b", "c">>}
Jobs == 1..MaxJobs
NoJob == 0

\* lines the fetch child prints in the job model
FetchLines ==
  { <<"5", ".", "0", "%", " ", "E", "T", "A", " ", "0", "1">>,
    <<"1", "0", ".", "2", "%", " ", "E", "T", "A", " ", "0", "1">>,
    <<"[", "d", "o", "w", "n", "l", "o", "a", "d", "]">> }
\* percentages send_video passes to progress_upload in the job model
UploadPcts == {0, 3}

VARIABLES
  user_url,    \* user_url: requester -> stored URL
  user_tasks,  \* user_tasks: requester -> the task last registered (a job id)
  job,         \* job id -> the job task download_video created, its
               \* closure variables, its children and its files
  reply,       \* the chat transcript's last entry: what a handler last
               \* answered and to whom, while the transcript is kept
  parser,      \* parse_progress applied to one line
  throttle,    \* the two throttles fed one sequence of percentages
  stream       \* the fetch throttle fed a stream of percentages

\* a job slot before download_video creates its task
NoTask ==
  [owner |-> Nobody,     \* the requester whose callback created the task
   pc |-> "none",        \* the await of run_download the task is suspended at
   exit |-> "none",      \* how the task ended: the return it took, "raised"
                         \* or "cancelled"
   cancelAt |-> "none",  \* the await CancelledError was thrown in at
   mustCancel |-> FALSE, \* task.cancel() was called and is not yet delivered
   fetchProc |-> "none", \* the yt-dlp child
   ffmpegProc |-> "none",\* the ffmpeg transcode child
   thumbProc |-> "none", \* the ffmpeg thumbnail child
   tempFile |-> FALSE,   \* temp_path exists
   finalFile |-> FALSE,  \* final_path exists
   thumbFile |-> FALSE,  \* the thumbnail file exists
   thumbPath |-> FALSE,  \* the local thumb_path is not None
   attempts |-> 0,       \* send_video calls that have ended
   delivered |-> FALSE,  \* a send_video call returned
   slept |-> 0,          \* time units spent in asyncio.sleep(5)
   progressPct |-> NO_PCT, \* progress["pct"]
   lastUpdate |-> NO_PCT,  \* last_update["pct"]
   pending |-> 0,        \* fire-and-forget edit tasks created and not yet run
   status |-> "none",    \* what the status message msg shows
   finals |-> 0]         \* final status texts delivered to msg

pure == <<parser, throttle, stream>>
vars == <<user_url, user_tasks, job, reply, pure>>

Created == {j \in Jobs : job[j].owner # Nobody}
Terminal(j) == job[j].pc = "end"
\* task.done()
TaskDone(j) == job[j].pc = "end"

\* the returns of lines 214, 245, 248 and 317
FailedExits == {"fetch_failed", "merge_timeout", "merge_failed", "upload_failed"}

\* the lifecycle state of a job, read off the position of its task
JobState(j) ==
  CASE job[j].pc = "none" -> "Idle"
    [] job[j].pc \in {"start", "L72", "L78", "L213"} -> "Fetching"
    [] job[j].pc \in {"L225", "L237", "L241", "L244", "L247"} -> "Transcoding"
    [] job[j].pc \in {"L259", "L262"} -> "ThumbnailExtraction"
    [] job[j].pc \in {"L301", "L314", "L316", "L319", "L326"} -> "Uploading"
    [] job[j].pc = "end" /\ job[j].exit = "done" -> "Done"
    [] job[j].pc = "end" /\ job[j].exit \in FailedExits \cup {"raised"}
         -> "Failed"
    [] job[j].pc = "end" /\ job[j].exit \in {"cancelled", "cancel_raised"}
         -> "Cancelled"

Set(j, r) == job' = [job EXCEPT ![j] = r]

\* the transcript is not kept / is kept and empty
Unheard == <<"unheard">>
NoReply == <<>>
\* message.reply_text(...) and query.edit_message_text(...) of the handlers
Tell(u, text) == reply' = IF reply = Unheard THEN reply ELSE <<u, text>>

\* the texts of lines 214, 245, 248, 317 and 326, which end a job's status
FinalTexts ==
  {"download_failed", "merge_timeout", "merge_failed", "upload_failed", "done"}

(***************************************************************************)
(* Handlers.                                                               *)
(***************************************************************************)
Contains(text, tok) == \E i \in 1..Len(text) : text[i] = tok

\* int(query.data) does not raise
IsInt(data) == Len(data) >= 1 /\ \A i \in 1..Len(data) : data[i] \in Digits

\* the outcomes of ydl.extract_info(url): a lookup of a link succeeds or
\* fails, a lookup of a text that is no link fails
ExtractInfo(url) == IF url[1] = "https://" THEN {TRUE, FALSE} ELSE {FALSE}

\* lines 114-125: a text without the token is answered and dropped
handle_url(u, text) ==
  /\ IF ~(Contains(text, "youtube.com") \/ Contains(text, "youtu.be"))
     THEN UNCHANGED user_url /\ Tell(u, "invalid_url")
     ELSE /\ user_url' = [user_url EXCEPT ![u] = text]
          /\ Tell(u, "select_quality")
  /\ UNCHANGED <<user_tasks, job, pure>>

\* the task asyncio.create_task(run_download()) makes, lines 186 and 330:
\* msg shows the caption of line 170 and the task has not run yet
NewTask(u) ==
  [NoTask EXCEPT !.owner = u, !.pc = "start", !.status = "downloading"]

\* lines 129-152 and 330-331, creating the task in the first free slot of S:
\* no stored URL, a selection int() refuses and a failed lookup are each
\* answered and end the handler
Submit(u, data, S) ==
  LET url == user_url[u]
      Refuse(text) ==
        Tell(u, text) /\ UNCHANGED <<user_url, user_tasks, job, reply, pure>>
  IN
  IF url = NoUrl THEN Refuse("url_not_found")
  ELSE IF ~IsInt(data) THEN Refuse("invalid_selection")
  ELSE \E ok \in ExtractInfo(url) :
         IF ~ok
         THEN Refuse("extract_failed")
         ELSE \E j \in S :
                /\ j \notin Created
                /\ \A i \in S : i < j => i \in Created
                /\ Set(j, NewTask(u))
                /\ user_tasks' = [user_tasks EXCEPT ![u] = j]
                /\ Tell(u, "downloading")
                /\ UNCHANGED <<user_url, pure>>

download_video(u, data) == Submit(u, data, Jobs)

\* cancel_download without the test of task.done()
cancel_downloadAnyTask(u) ==
  LET task == user_tasks[u] IN
  /\ IF task # NoJob
     THEN /\ Set(task, [job[task] EXCEPT !.mustCancel = TRUE])
          /\ Tell(u, "cancelled")
     ELSE /\ UNCHANGED job
          /\ Tell(u, "nothing_to_cancel")
  /\ UNCHANGED <<user_url, user_tasks, pure>>

\* cancel_download looking up the task created last instead of the task
\* registered for the requester
cancel_downloadLatest(u) ==
  LET task == IF Created = {} THEN NoJob
              ELSE CHOOSE j \in Created : \A i \in Created : i <= j
  IN
  /\ IF task # NoJob /\ ~TaskDone(task)
     THEN /\ Set(task, [job[task] EXCEPT !.mustCancel = TRUE])
          /\ Tell(u, "cancelled")
     ELSE /\ UNCHANGED job
          /\ Tell(u, "nothing_to_cancel")
  /\ UNCHANGED <<user_url, user_tasks, pure>>

\* lines 104-110
cancel_download(u) ==
  LET task == user_tasks[u] IN
  /\ IF task # NoJob /\ ~TaskDone(task)
     THEN /\ Set(task, [job[task] EXCEPT !.mustCancel = TRUE])
          /\ Tell(u, "cancelled")
     ELSE /\ UNCHANGED job
          /\ Tell(u, "nothing_to_cancel")
  /\ UNCHANGED <<user_url, user_tasks, pure>>

(***************************************************************************)
(* The job task run_download and the children it spawns.  A step runs the  *)
(* task from one await to the next; a task whose cancel() is pending takes *)
(* no step but DeliverCancel.                                              *)
(***************************************************************************)
botVars == <<user_url, user_tasks, reply, pure>>

Ready(j, p) == j \in Created /\ job[j].pc = p /\ ~job[j].mustCancel

\* the task ends by return
Return(r, how) == [r EXCEPT !.pc = "end", !.exit = how]
\* the task ends by an exception nothing in run_download catches
Raise(r) == [r EXCEPT !.pc = "end", !.exit = "raised"]

\* an awaited msg.edit_text at position p: the text is delivered and the task
\* goes on as `after`, or the call raises
AwaitEdit(j, p, text, after) ==
  /\ Ready(j, p)
  /\ \E ok \in BOOLEAN :
       IF ok THEN Set(j, [after EXCEPT
                            !.status = text,
                            !.finals = IF text \in FinalTexts THEN @ + 1
                                                              ELSE @])
             ELSE Set(j, Raise(job[j]))
  /\ UNCHANGED botVars

\* lines 209-211 and 72: the task runs up to its first await, the launch of
\* yt-dlp
TaskStart(j) ==
  /\ Ready(j, "start")
  /\ Set(j, [job[j] EXCEPT !.pc = "L72"])
  /\ UNCHANGED botVars

\* lines 72-75: yt-dlp is launched, or cannot be
StartFetch(j) ==
  /\ Ready(j, "L72")
  /\ \E launched \in BOOLEAN :
       IF launched
       THEN Set(j, [job[j] EXCEPT !.pc = "L78", !.fetchProc = "running"])
       ELSE Set(j, Raise(job[j]))
  /\ UNCHANGED botVars

\* lines 78-89 and 187-206: a line arrives and parse_progress handles it
FetchLine(j, line) ==
  /\ Ready(j, "L78")
  /\ job[j].fetchProc = "running"
  /\ job[j].pending < MaxPending
  /\ LET s == ParseProgress(line) IN
       IF s.match /\ FetchShouldReport(s.percent, job[j].progressPct)
       THEN Set(j, [job[j] EXCEPT !.progressPct = s.percent,
                                  !.pending = @ + 1])
       ELSE UNCHANGED job
  /\ UNCHANGED botVars

\* the yt-dlp child writes to temp_path (-o str(temp_path), line 176)
FetchWritesTemp(j) ==
  /\ j \in Created
  /\ job[j].fetchProc = "running"
  /\ ~job[j].tempFile
  /\ Set(j, [job[j] EXCEPT !.tempFile = TRUE])
  /\ UNCHANGED botVars

\* lines 82-83, 90 and 212: end of output, the exit code is returned
FetchExit(j, code) ==
  /\ Ready(j, "L78")
  /\ job[j].fetchProc = "running"
  /\ IF code = 0
     THEN Set(j, [job[j] EXCEPT !.fetchProc = "exited", !.tempFile = TRUE,
                                !.pc = "L225"])
     ELSE Set(j, [job[j] EXCEPT !.fetchProc = "exited", !.pc = "L213"])
  /\ UNCHANGED botVars

\* lines 79-81: no line within the bound, the child is killed, RuntimeError
FetchTimeout(j) ==
  /\ Ready(j, "L78")
  /\ job[j].fetchProc = "running"
  /\ Set(j, Raise([job[j] EXCEPT !.fetchProc = "killed"]))
  /\ UNCHANGED botVars

\* lines 213-214
ReportFetchFailed(j) ==
  AwaitEdit(j, "L213", "download_failed", Return(job[j], "fetch_failed"))

\* line 225
ReportMerging(j) ==
  AwaitEdit(j, "L225", "merging", [job[j] EXCEPT !.pc = "L237"])

\* lines 237-239: ffmpeg is launched, or cannot be
SpawnTranscode(j) ==
  /\ Ready(j, "L237")
  /\ \E launched \in BOOLEAN :
       IF launched
       THEN Set(j, [job[j] EXCEPT !.pc = "L241", !.ffmpegProc = "running"])
       ELSE Set(j, Raise(job[j]))
  /\ UNCHANGED botVars

\* the ffmpeg child writes to final_path (line 235)
TranscodeWritesFinal(j) ==
  /\ j \in Created
  /\ job[j].ffmpegProc = "running"
  /\ ~job[j].finalFile
  /\ Set(j, [job[j] EXCEPT !.finalFile = TRUE])
  /\ UNCHANGED botVars

\* lines 241 and 246: communicate() returns with the child's exit code
TranscodeExit(j, code) ==
  /\ Ready(j, "L241")
  /\ job[j].ffmpegProc = "running"
  /\ IF code = 0
     THEN Set(j, [job[j] EXCEPT !.ffmpegProc = "exited", !.finalFile = TRUE,
                                !.pc = "L259"])
     ELSE Set(j, [job[j] EXCEPT !.ffmpegProc = "exited", !.pc = "L247"])
  /\ UNCHANGED botVars

\* TranscodeTimeout without proc.kill()
TranscodeTimeoutNoKill(j) ==
  /\ Ready(j, "L241")
  /\ job[j].ffmpegProc = "running"
  /\ Set(j, [job[j] EXCEPT !.pc = "L244"])
  /\ UNCHANGED botVars

\* lines 242-243: the bound expires and the child is killed
TranscodeTimeout(j) ==
  /\ Ready(j, "L241")
  /\ job[j].ffmpegProc = "running"
  /\ Set(j, [job[j] EXCEPT !.ffmpegProc = "killed", !.pc = "L244"])
  /\ UNCHANGED botVars

\* lines 244-245
ReportMergeTimeout(j) ==
  AwaitEdit(j, "L244", "merge_timeout", Return(job[j], "merge_timeout"))

\* lines 247-248
ReportMergeFailed(j) ==
  AwaitEdit(j, "L247", "merge_failed", Return(job[j], "merge_failed"))

\* lines 259-261: the thumbnail ffmpeg is launched, or cannot be
SpawnThumb(j) ==
  /\ Ready(j, "L259")
  /\ \E launched \in BOOLEAN :
       IF launched
       THEN Set(j, [job[j] EXCEPT !.pc = "L262", !.thumbProc = "running"])
       ELSE Set(j, Raise(job[j]))
  /\ UNCHANGED botVars

\* lines 262-264: the thumbnail child exits, with or without a file
ThumbExit(j, produced) ==
  /\ Ready(j, "L262")
  /\ job[j].thumbProc = "running"
  /\ Set(j, [job[j] EXCEPT !.thumbProc = "exited", !.thumbFile = produced,
                           !.thumbPath = produced, !.pc = "L301"])
  /\ UNCHANGED botVars

\* lines 279-297: send_video calls progress_upload
UploadProgress(j, pct) ==
  /\ Ready(j, "L301")
  /\ IF UploadShouldReport(pct, job[j].lastUpdate)
     THEN \E ok \in BOOLEAN :
            Set(j, [job[j] EXCEPT !.lastUpdate = pct,
                       !.status = IF ok THEN "uploading" ELSE @])
     ELSE UNCHANGED job
  /\ UNCHANGED botVars

\* lines 299-313: one send_video call ends
UploadAttempt(j, ok) ==
  /\ Ready(j, "L301")
  /\ Set(j, [job[j] EXCEPT !.attempts = @ + 1, !.delivered = ok,
                           !.pc = IF ok THEN "L319" ELSE "L314"])
  /\ UNCHANGED botVars

\* RetrySleep with a delay that doubles the constant
RetrySleepLong(j) ==
  /\ Ready(j, "L314")
  /\ Set(j, [job[j] EXCEPT !.slept = @ + 2 * RETRY_DELAY,
               !.pc = IF job[j].attempts < MAX_ATTEMPTS THEN "L301"
                                                        ELSE "L316"])
  /\ UNCHANGED botVars

\* RetrySleep with a loop that takes one turn too many
RetrySleepOneMore(j) ==
  /\ Ready(j, "L314")
  /\ Set(j, [job[j] EXCEPT !.slept = @ + RETRY_DELAY,
               !.pc = IF job[j].attempts <= MAX_ATTEMPTS THEN "L301"
                                                         ELSE "L316"])
  /\ UNCHANGED botVars

\* line 314, then the next turn of the loop or its else branch
RetrySleep(j) ==
  /\ Ready(j, "L314")
  /\ Set(j, [job[j] EXCEPT !.slept = @ + RETRY_DELAY,
               !.pc = IF job[j].attempts < MAX_ATTEMPTS THEN "L301"
                                                        ELSE "L316"])
  /\ UNCHANGED botVars

\* lines 316-317
ReportUploadFailed(j) ==
  AwaitEdit(j, "L316", "upload_failed", Return(job[j], "upload_failed"))

\* ReportUploaded without the os.remove of final_path
ReportUploadedKeepsFinal(j) ==
  AwaitEdit(j, "L319", "uploaded",
            [job[j] EXCEPT !.tempFile = FALSE,
                           !.thumbFile = IF job[j].thumbPath THEN FALSE ELSE @,
                           !.pc = "L326"])

\* lines 319-325: the text is delivered, then the three files are removed
ReportUploaded(j) ==
  AwaitEdit(j, "L319", "uploaded",
            [job[j] EXCEPT !.tempFile = FALSE, !.finalFile = FALSE,
                           !.thumbFile = IF job[j].thumbPath THEN FALSE ELSE @,
                           !.pc = "L326"])

\* line 326
ReportDone(j) ==
  AwaitEdit(j, "L326", "done", Return(job[j], "done"))

\* positions inside the try block of lines 210-214
InFetchTry(p) == p \in {"L72", "L78", "L213"}

\* CancelledError is thrown into the task at its await.  Inside the try block
\* the handler of line 215 runs: msg is a pyrogram Message, which has no
\* edit_message_text, so line 216 raises AttributeError before the cleanup of
\* lines 217-221.  Elsewhere nothing catches it.  A task that never started
\* never runs.  No path kills a child.
DeliverCancel(j) ==
  /\ j \in Created
  /\ job[j].mustCancel
  /\ ~Terminal(j)
  /\ Set(j, [job[j] EXCEPT
               !.mustCancel = FALSE,
               !.cancelAt = job[j].pc,
               !.pc = "end",
               !.exit = IF InFetchTry(job[j].pc) THEN "cancel_raised"
                                                 ELSE "cancelled"])
  /\ UNCHANGED botVars

\* lines 197-206: one of the edit tasks parse_progress created runs
DeliverProgressEdit(j) ==
  /\ j \in Created
  /\ job[j].pending > 0
  /\ \E ok \in BOOLEAN :
       Set(j, [job[j] EXCEPT !.pending = @ - 1,
                  !.status = IF ok THEN "progress" ELSE @])
  /\ UNCHANGED botVars

\* a child left running by a task that has ended exits on its own
OrphanExit(j) ==
  /\ j \in Created
  /\ Terminal(j)
  /\ \/ /\ job[j].fetchProc = "running"
        /\ Set(j, [job[j] EXCEPT !.fetchProc = "exited"])
     \/ /\ job[j].ffmpegProc = "running"
        /\ Set(j, [job[j] EXCEPT !.ffmpegProc = "exited"])
     \/ /\ job[j].thumbProc = "running"
        /\ Set(j, [job[j] EXCEPT !.thumbProc = "exited"])
  /\ UNCHANGED botVars

(***************************************************************************)
(* The bot's behaviours.                                                   *)
(***************************************************************************)
ParserIdle == [line |-> <<>>, sample |-> NoMatch, parsed |-> FALSE]
ThrottleIdle ==
  [input |-> <<>>, fi |-> 0, ui |-> 0, progressPct |-> NO_PCT,
   lastUpdate |-> NO_PCT, fetchOut |-> <<>>, uploadOut |-> <<>>]
StreamIdle ==
  [last |-> NO_PCT, count |-> 0, uLast |-> NO_PCT, uCount |-> 0,
   prev |-> NO_PCT, sorted |-> TRUE, inRange |-> TRUE]

BotInit ==
  /\ user_url = [u \in Users |-> NoUrl]
  /\ user_tasks = [u \in Users |-> NoJob]
  /\ job = [j \in Jobs |-> NoTask]
  /\ reply = Unheard

Init ==
  /\ BotInit
  /\ parser = ParserIdle
  /\ throttle = ThrottleIdle
  /\ stream = StreamIdle

\* the handlers and the job tasks; the children print no progress
JobStep(j) ==
  \/ TaskStart(j)
  \/ StartFetch(j)
  \/ FetchWritesTemp(j)
  \/ \E code \in {0, 1} : FetchExit(j, code)
  \/ FetchTimeout(j)
  \/ ReportFetchFailed(j)
  \/ ReportMerging(j)
  \/ SpawnTranscode(j)
  \/ TranscodeWritesFinal(j)
  \/ \E code \in {0, 1} : TranscodeExit(j, code)
  \/ TranscodeTimeout(j)
  \/ ReportMergeTimeout(j)
  \/ ReportMergeFailed(j)
  \/ SpawnThumb(j)
  \/ \E produced \in BOOLEAN : ThumbExit(j, produced)
  \/ \E ok \in BOOLEAN : UploadAttempt(j, ok)
  \/ RetrySleep(j)
  \/ ReportUploadFailed(j)
  \/ ReportUploaded(j)
  \/ ReportDone(j)
  \/ DeliverCancel(j)
  \/ OrphanExit(j)

Next ==
  \/ \E u \in Users, text \in Texts : handle_url(u, text)
  \/ \E u \in Users, data \in CallbackData : download_video(u, data)
  \/ \E u \in Users : cancel_download(u)
  \/ \E j \in Jobs : JobStep(j)

Spec == Init /\ [][Next]_vars

\* one job, whose children print progress: the handlers, the job task, the
\* line callback, the edit tasks it creates and the upload callback
ProgressJobs == {1}

NextJob ==
  \/ \E u \in Users, text \in Texts : handle_url(u, text)
  \/ \E u \in Users, data \in CallbackData : Submit(u, data, ProgressJobs)
  \/ \E u \in Users : cancel_download(u)
  \/ \E j \in ProgressJobs : JobStep(j)
  \/ \E j \in ProgressJobs, line \in FetchLines : FetchLine(j, line)
  \/ \E j \in ProgressJobs : DeliverProgressEdit(j)
  \/ \E j \in ProgressJobs, pct \in UploadPcts : UploadProgress(j, pct)

SpecJob == Init /\ [][NextJob]_vars

\* the steps of a job task that the event loop brings about: an awaited
\* launch, edit, send_video or sleep ends, a bounded wait ends by the exit
\* of the child or by its timeout, a pending cancel() is delivered.  The
\* wait of line 262 has no bound: the exit of the thumbnail child is not
\* among them.
TaskStep(j) ==
  \/ TaskStart(j)
  \/ StartFetch(j)
  \/ \E code \in {0, 1} : FetchExit(j, code)
  \/ FetchTimeout(j)
  \/ ReportFetchFailed(j)
  \/ ReportMerging(j)
  \/ SpawnTranscode(j)
  \/ \E code \in {0, 1} : TranscodeExit(j, code)
  \/ TranscodeTimeout(j)
  \/ ReportMergeTimeout(j)
  \/ ReportMergeFailed(j)
  \/ SpawnThumb(j)
  \/ \E ok \in BOOLEAN : UploadAttempt(j, ok)
  \/ RetrySleep(j)
  \/ ReportUploadFailed(j)
  \/ ReportUploaded(j)
  \/ ReportDone(j)
  \/ DeliverCancel(j)

SpecJobFair == SpecJob /\ \A j \in ProgressJobs : WF_vars(TaskStep(j))

\* two jobs whose uploads report progress; the requesters send a link or a
\* text that is none
PairTexts == {<<"https://", "youtube.com", "/watch?v=a">>, <<"hello">>}

NextPair ==
  \/ \E u \in Users, text \in PairTexts : handle_url(u, text)
  \/ \E u \in Users, data \in CallbackData : download_video(u, data)
  \/ \E u \in Users : cancel_download(u)
  \/ \E j \in Jobs : JobStep(j)
  \/ \E j \in Jobs, pct \in UploadPcts : UploadProgress(j, pct)

SpecPair == Init /\ [][NextPair]_vars

\* one silent job and the handlers, with the chat transcript kept
ChatInit ==
  /\ user_url = [u \in Users |-> NoUrl]
  /\ user_tasks = [u \in Users |-> NoJob]
  /\ job = [j \in Jobs |-> NoTask]
  /\ reply = NoReply
  /\ parser = ParserIdle
  /\ throttle = ThrottleIdle
  /\ stream = StreamIdle

NextChat ==
  \/ \E u \in Users, text \in Texts : handle_url(u, text)
  \/ \E u \in Users, data \in CallbackData : Submit(u, data, ProgressJobs)
  \/ \E u \in Users : cancel_download(u)
  \/ \E j \in ProgressJobs : JobStep(j)

SpecChat == ChatInit /\ [][NextChat]_vars

(***************************************************************************)
(* parse_progress on one line.                                             *)
(***************************************************************************)
P_none == <<>>
P_427 == <<"4", "2", ".", "7", "%">>
P_42 == <<"4", "2", "%">>
P_1000 == <<"1", "0", "0", ".", "0", "%">>
P_12345 == <<"1", "2", "3", "4", ".", "5", "%">>
PctParts == {P_none, P_427, P_42, P_1000, P_12345}

S_MiB == <<"a", "t", " ", "1", ".", "2", "3", "M", "i", "B", "/", "s">>
S_MB == <<"a", "t", " ", "1", ".", "2", "3", "M", "B", "/", "s">>
SpeedParts == {<<>>, S_MiB, S_MB}

E_0030 == <<"E", "T", "A", " ", "0", "0", ":", "3", "0">>
E_colon == <<"E", "T", "A", ":", "3", "0", "s">>
EtaParts == {<<>>, E_0030, E_colon}

Sp == <<" ">>
\* "<pct> <speed> <eta>" as yt-dlp prints it, and with the ETA first
ParseLines ==
  { p \o Sp \o sp \o Sp \o e : p \in PctParts, sp \in SpeedParts, e \in EtaParts }
  \cup
  { e \o Sp \o p \o Sp \o sp : p \in PctParts, sp \in SpeedParts, e \in EtaParts }

ParseInit ==
  /\ BotInit
  /\ parser \in {[line |-> l, sample |-> NoMatch, parsed |-> FALSE] :
                   l \in ParseLines}
  /\ throttle = ThrottleIdle
  /\ stream = StreamIdle

\* lines 187-194 on the line
ParseLine ==
  /\ ~parser.parsed
  /\ parser' = [parser EXCEPT !.sample = ParseProgress(parser.line),
                              !.parsed = TRUE]
  /\ UNCHANGED <<user_url, user_tasks, job, reply, throttle, stream>>

SpecParse == ParseInit /\ [][ParseLine]_vars

(***************************************************************************)
(* The throttles on a sequence of percentages.                             *)
(***************************************************************************)
ThrottlePcts == {0, 3, 5, 10}
Example == <<3, 5, 5, 9, 10, 10, 15>>

RECURSIVE SeqsUpTo(_, _)
SeqsUpTo(S, n) ==
  IF n = 0 THEN {<<>>}
  ELSE LET shorter == SeqsUpTo(S, n - 1)
       IN  shorter \cup {Append(q, x) : q \in shorter, x \in S}

ThrottleInputs == SeqsUpTo(ThrottlePcts, MaxSamples) \cup {Example}

ThrottleInit ==
  /\ BotInit
  /\ parser = ParserIdle
  /\ throttle \in {[ThrottleIdle EXCEPT !.input = q] : q \in ThrottleInputs}
  /\ stream = StreamIdle

\* lines 195-197: parse_progress on the next percentage
FeedFetch ==
  /\ throttle.fi < Len(throttle.input)
  /\ LET pct == throttle.input[throttle.fi + 1] IN
       IF FetchShouldReport(pct, throttle.progressPct)
       THEN throttle' = [throttle EXCEPT !.fi = @ + 1, !.progressPct = pct,
                                         !.fetchOut = Append(@, pct)]
       ELSE throttle' = [throttle EXCEPT !.fi = @ + 1]
  /\ UNCHANGED <<user_url, user_tasks, job, reply, parser, stream>>

\* lines 283-287: progress_upload on the next percentage
FeedUpload ==
  /\ throttle.ui < Len(throttle.input)
  /\ LET pct == throttle.input[throttle.ui + 1] IN
       IF UploadShouldReport(pct, throttle.lastUpdate)
       THEN throttle' = [throttle EXCEPT !.ui = @ + 1, !.lastUpdate = pct,
                                         !.uploadOut = Append(@, pct)]
       ELSE throttle' = [throttle EXCEPT !.ui = @ + 1]
  /\ UNCHANGED <<user_url, user_tasks, job, reply, parser, stream>>

SpecThrottle == ThrottleInit /\ [][FeedFetch \/ FeedUpload]_vars

(***************************************************************************)
(* The two throttles on a stream of percentages of any length: the reports *)
(* are counted, and the stream is cut after MaxReports of them.            *)
(***************************************************************************)
\* every multiple of 5 a three-digit percentage near 0..100 can be, and
\* some that are none
StreamPcts == {p \in 0..105 : p % 5 = 0} \cup {3, 42, 99}

\* lines 195-197 and lines 283-287 on the next sample of the stream
StreamSample(pct) ==
  /\ stream.count < MaxReports
  /\ stream.uCount < MaxReports
  /\ stream' =
       [last |-> IF FetchShouldReport(pct, stream.last) THEN pct
                 ELSE stream.last,
        count |-> IF FetchShouldReport(pct, stream.last) THEN stream.count + 1
                  ELSE stream.count,
        uLast |-> IF UploadShouldReport(pct, stream.uLast) THEN pct
                  ELSE stream.uLast,
        uCount |-> IF UploadShouldReport(pct, stream.uLast)
                   THEN stream.uCount + 1 ELSE stream.uCount,
        prev |-> pct,
        sorted |-> stream.sorted /\ pct >= stream.prev,
        inRange |-> stream.inRange /\ pct \in 0..100]
  /\ UNCHANGED <<user_url, user_tasks, job, reply, parser, throttle>>

SpecStream == Init /\ [][\E pct \in StreamPcts : StreamSample(pct)]_vars

(***************************************************************************)
(* Properties of the job lifecycle.                                        *)
(***************************************************************************)
OwnedBy(u) == {j \in Created : job[j].owner = u}
ActiveOf(u) == {j \in OwnedBy(u) : ~Terminal(j)}
Children(j) == {job[j].fetchProc, job[j].ffmpegProc, job[j].thumbProc}

\* C1: a requester has at most one job that is not in a terminal state, and
\* while a requester has such a job no step creates another task for that
\* requester.
C1_OneActiveJobPerRequester ==
  [][\A u \in Users :
       /\ Cardinality(ActiveOf(u)') <= 1
       /\ ActiveOf(u) # {} => OwnedBy(u)' = OwnedBy(u)]_vars

\* C2: a job whose task was cancelled while it awaited the fetch child
\* (line 211) and has finished is in state Cancelled and has no temp file.
C2_CancelInFetchingCleansUp ==
  \A j \in Jobs :
    (Terminal(j) /\ job[j].cancelAt = "L78") =>
      (JobState(j) = "Cancelled" /\ ~job[j].tempFile)

\* C3: a job in a terminal state has no child process still running.
C3_NoChildOutlivesJob ==
  \A j \in Jobs : Terminal(j) => "running" \notin Children(j)

\* C4: a job that entered Fetching and is in a terminal state has no temp
\* file.
C4_TerminalJobHasNoTempFile ==
  \A j \in Created : Terminal(j) => ~job[j].tempFile

\* C5: when the first k send_video calls failed and call k+1 returned
\* (k = 0, 1, 2), k+1 calls were made and the delays before it add up to
\* 5*k; a job is Done only after a call returned, and a job whose call
\* returned ends Done unless it is cancelled or a status edit raises.
C5_UploadRetryCount ==
  \A j \in Jobs :
    /\ job[j].delivered => job[j].attempts \in 1..3
    /\ \A k \in 0..2 :
         (job[j].delivered /\ job[j].attempts = k + 1) => job[j].slept = 5 * k
    /\ JobState(j) = "Done" => job[j].delivered
    /\ (Terminal(j) /\ job[j].delivered /\ job[j].cancelAt = "none"
          /\ job[j].exit # "raised") => JobState(j) = "Done"

\* two failed calls, then a call that returned: Done after 3 calls, 10 units
C5_Witness ==
  \E j \in Jobs :
    JobState(j) = "Done" /\ job[j].attempts = 3 /\ job[j].slept = 10

\* three send_video calls have ended and none returned
AllFailed(j) == job[j].attempts = 3 /\ ~job[j].delivered

\* C6: a job makes at most 3 send_video calls; when all 3 failed the job,
\* unless it is cancelled or the status edit raises, reports the upload
\* failure and ends Failed; and no further call is made for it.
C6_AtMostThreeAttempts ==
  /\ [](\A j \in Jobs :
          /\ job[j].attempts <= 3
          /\ (AllFailed(j) /\ Terminal(j) /\ job[j].cancelAt = "none"
                /\ job[j].exit # "raised")
               => (job[j].exit = "upload_failed" /\ JobState(j) = "Failed"))
  /\ [][\A j \in Jobs :
          AllFailed(j) => (job'[j].attempts = 3 /\ ~job'[j].delivered)]_vars

C6_Witness ==
  \E j \in Jobs : AllFailed(j) /\ job[j].exit = "upload_failed"

\* the stage a status text belongs to
StageOf(text) ==
  CASE text = "none" -> 0
    [] text \in {"downloading", "progress", "download_failed"} -> 1
    [] text \in {"merging", "merge_timeout", "merge_failed"} -> 2
    [] text \in {"uploading", "upload_failed", "uploaded"} -> 4
    [] text = "done" -> 5

\* C10: the texts delivered to the status message of a job never go back to
\* an earlier stage: no Fetching progress text is delivered after a
\* Transcoding or later text.
C10_StatusStageOrder ==
  [][\A j \in Jobs :
       StageOf(job'[j].status) >= StageOf(job[j].status)]_vars

(***************************************************************************)
(* Properties of the throttles and of the parser.                          *)
(***************************************************************************)
\* the reports the throttle policy asks for on a sequence: a value is
\* reported when it is a multiple of 5 and is not the value reported last
RECURSIVE Reported(_, _)
Reported(q, last) ==
  IF q = <<>> THEN <<>>
  ELSE IF Head(q) % 5 = 0 /\ Head(q) # last
       THEN <<Head(q)>> \o Reported(Tail(q), Head(q))
       ELSE Reported(Tail(q), last)

LastOf(out) == IF out = <<>> THEN -1 ELSE out[Len(out)]

\* C7: starting from last-reported = -1, both throttles report a value
\* exactly when it is a multiple of 5 that differs from the value reported
\* last, and record it; on [3, 5, 5, 9, 10, 10, 15] each reports 5, 10, 15.
C7_ThrottleReports ==
  /\ throttle.fetchOut =
       Reported(SubSeq(throttle.input, 1, throttle.fi), -1)
  /\ throttle.uploadOut =
       Reported(SubSeq(throttle.input, 1, throttle.ui), -1)
  /\ throttle.progressPct = LastOf(throttle.fetchOut)
  /\ throttle.lastUpdate = LastOf(throttle.uploadOut)
  /\ (throttle.input = <<3, 5, 5, 9, 10, 10, 15>> /\ throttle.fi = 7)
       => throttle.fetchOut = <<5, 10, 15>>
  /\ (throttle.input = <<3, 5, 5, 9, 10, 10, 15>> /\ throttle.ui = 7)
       => throttle.uploadOut = <<5, 10, 15>>

C7_Witness ==
  /\ throttle.input = <<3, 5, 5, 9, 10, 10, 15>>
  /\ throttle.fi = 7
  /\ throttle.ui = 7
  /\ throttle.fetchOut = <<5, 10, 15>>
  /\ throttle.uploadOut = <<5, 10, 15>>

\* C8 as stated: whatever the samples of a stage, its throttle issues at
\* most 21 updates.
C8_AtMost21Updates == stream.count <= 21 /\ stream.uCount <= 21

\* C8 as amended: when the samples of a stage never decrease and all lie in
\* 0..100, its throttle issues at most 21 updates.
C8_SortedAtMost21Updates ==
  (stream.sorted /\ stream.inRange) =>
    (stream.count <= 21 /\ stream.uCount <= 21)

C8_Witness ==
  stream.sorted /\ stream.inRange /\ stream.count = 21 /\ stream.uCount = 21

\* the line holds a percentage token: digits, an optional fraction, '%'
HasPctToken(line) ==
  \E i \in 1..Len(line) :
    LET d == RunLen(line, i, Digits)
        f == RunLen(line, i + d + 1, Digits)
    IN  /\ d >= 1
        /\ \/ At(line, i + d) = "%"
           \/ At(line, i + d) = "." /\ f >= 1 /\ At(line, i + d + 1 + f) = "%"

\* C9: the parser yields a sample exactly for the lines that hold a
\* percentage token, and from "42.7% at 1.23MiB/s ETA 00:30" it yields
\* percent 42, speed "1.23MiB/s", eta "00:30".
C9_ParserAsClaimed ==
  parser.parsed =>
    /\ parser.sample.match <=> HasPctToken(parser.line)
    /\ parser.line = P_427 \o Sp \o S_MiB \o Sp \o E_0030 =>
         parser.sample =
           [match |-> TRUE, percent |-> 42,
            speed |-> <<"1", ".", "2", "3", "M", "i", "B", "/", "s">>,
            eta |-> <<"0", "0", ":", "3", "0">>]

\* C11: a job in a terminal state has had exactly one final status text
\* (download failed, merge timed out, merge failed, upload failed, done)
\* delivered to its status message: not zero and not more than one.
C11_ExactlyOneFinalStatus ==
  \A j \in Jobs : Terminal(j) => job[j].finals = 1

\* C12: no stage-level error ends the job task by an exception that escapes
\* run_download, and a job in state Failed has had a failure text delivered.
C12_NoErrorEscapesTask ==
  \A j \in Jobs :
    /\ job[j].exit # "raised"
    /\ JobState(j) = "Failed" => job[j].finals = 1

\* the requester has no registered task, or the registered task has finished
NoActiveJob(u) == user_tasks[u] = NoJob \/ Terminal(user_tasks[u])

\* C13: a /cancel of a requester with no active job answers that requester
\* "nothing to cancel" and leaves the task mapping, the stored URLs and
\* every job unchanged.
C13_CancelWithoutJobIsNoOp ==
  [][\A u \in Users :
       (NoActiveJob(u) /\ cancel_download(u)) =>
         /\ reply' = <<u, "nothing_to_cancel">>
         /\ UNCHANGED <<user_url, user_tasks, job>>]_vars

\* a requester whose job is Done was answered "nothing to cancel"
C13_Witness ==
  \E u \in Users :
    /\ reply = <<u, "nothing_to_cancel">>
    /\ user_tasks[u] # NoJob
    /\ JobState(user_tasks[u]) = "Done"

\* the text is a link
ValidUrl(text) == text # NoUrl /\ text[1] = "https://"

\* C14: a text that is no link is answered as invalid and not stored; a
\* selection that is none of 360, 480, 720 is answered as invalid (or as
\* lacking a URL), with no metadata lookup made and no job task created or
\* registered.
C14_InvalidRequestRejected ==
  [][\A u \in Users :
       /\ \A text \in Texts :
            (~ValidUrl(text) /\ handle_url(u, text)) =>
              (reply' = <<u, "invalid_url">> /\ UNCHANGED user_url)
       /\ \A data \in CallbackData \ QUALITY_OPTIONS :
            Submit(u, data, ProgressJobs) =>
              /\ reply' \in {<<u, "invalid_selection">>, <<u, "url_not_found">>}
              /\ UNCHANGED <<user_tasks, job>>]_vars

\* the stage changes of the lifecycle that do not end in Failed or Cancelled
StageSteps ==
  { <<"Idle", "Fetching">>, <<"Fetching", "Transcoding">>,
    <<"Transcoding", "ThumbnailExtraction">>,
    <<"ThumbnailExtraction", "Uploading">>, <<"Uploading", "Done">> }

\* C15: a job whose first send_video call returned and that ended without
\* being cancelled and without an exception is Done; a Done job has no temp,
\* final or thumbnail file; and a job changes stage only along Idle,
\* Fetching, Transcoding, ThumbnailExtraction, Uploading, Done (or into
\* Failed or Cancelled), so a Done job went through each stage once, in
\* that order.
C15_HappyPathEndsDone ==
  /\ [](\A j \in Jobs :
          /\ (Terminal(j) /\ job[j].delivered /\ job[j].attempts = 1
                /\ job[j].cancelAt = "none" /\ job[j].exit # "raised")
               => JobState(j) = "Done"
          /\ JobState(j) = "Done" =>
               (~job[j].tempFile /\ ~job[j].finalFile /\ ~job[j].thumbFile))
  /\ [][\A j \in Jobs :
          JobState(j)' # JobState(j) =>
            \/ <<JobState(j), JobState(j)'>> \in StageSteps
            \/ JobState(j)' \in {"Failed", "Cancelled"}]_vars

\* Done after one send_video call, with a thumbnail made and removed
C15_Witness ==
  \E j \in Jobs :
    /\ JobState(j) = "Done" /\ job[j].attempts = 1 /\ job[j].slept = 0
    /\ job[j].thumbPath /\ job[j].thumbProc = "exited"
    /\ job[j].fetchProc = "exited" /\ job[j].ffmpegProc = "exited"

\* C16: a timeout kills the child it waited for, in the step that detects
\* it and before any failure text is sent; a job whose fetch timed out is
\* Failed; a job whose transcode timed out reports the timeout and ends
\* Failed, unless it is cancelled first, without launching the thumbnail or
\* an upload; and such a job does reach a terminal state.
C16_TimeoutKillsAndFails ==
  /\ [](\A j \in Jobs :
          /\ job[j].fetchProc = "killed" =>
               (JobState(j) = "Failed" /\ job[j].ffmpegProc = "none")
          /\ job[j].ffmpegProc = "killed" =>
               /\ JobState(j) \in {"Transcoding", "Failed", "Cancelled"}
               /\ JobState(j) = "Transcoding" => job[j].pc = "L244"
               /\ JobState(j) = "Cancelled" => job[j].cancelAt = "L244"
               /\ job[j].thumbProc = "none" /\ job[j].attempts = 0
          /\ job[j].exit = "merge_timeout" => job[j].ffmpegProc = "killed"
          /\ job[j].pc = "L244" => job[j].ffmpegProc = "killed")
  /\ [][\A j \in Jobs :
          (job'[j].ffmpegProc = "killed" /\ job[j].ffmpegProc # "killed") =>
            (job[j].ffmpegProc = "running" /\ job'[j].finals = 0)]_vars
  /\ \A j \in Jobs :
       (job[j].fetchProc = "killed" \/ job[j].ffmpegProc = "killed")
         ~> Terminal(j)

\* the transcode of a job timed out, the child was killed, the timeout was
\* reported and the job is Failed
C16_Witness ==
  \E j \in Jobs :
    /\ job[j].ffmpegProc = "killed" /\ JobState(j) = "Failed"
    /\ job[j].status = "merge_timeout"

\* C17: a job in ThumbnailExtraction eventually is in Uploading, whatever
\* the thumbnail child does, unless the job is cancelled.
C17_ThumbnailReachesUpload ==
  \A j \in Jobs :
    (JobState(j) = "ThumbnailExtraction")
      ~> (JobState(j) \in {"Uploading", "Cancelled"})

\* a step taken for requester a: one of a's handlers, or a step of a job
\* task a's callback created
StepFor(a) ==
  \/ \E text \in PairTexts : handle_url(a, text)
  \/ \E data \in CallbackData : download_video(a, data)
  \/ cancel_download(a)
  \/ \E j \in Jobs :
       /\ job'[j].owner = a
       /\ \/ JobStep(j)
          \/ \E pct \in UploadPcts : UploadProgress(j, pct)

\* what belongs to requester b: the stored URL, the registered task, and the
\* jobs of b with their state, children, files and throttle state
View(b) ==
  <<user_url[b], user_tasks[b],
    [j \in Jobs |-> IF job[j].owner = b THEN job[j] ELSE NoTask]>>

\* C18: a step taken for a requester leaves unchanged the stored URL, the
\* registered task and the jobs (state and throttle state included) of
\* every other requester: no step that changes what belongs to b is a step
\* taken for a requester other than b.
C18_RequestersIndependent ==
  [][\A b \in Users :
       View(b)' # View(b) => \A a \in Users \ {b} : ~StepFor(a)]_vars

\* one requester's job ended by an exception while the other requester's
\* job is uploading and has reported upload progress
C18_Witness ==
  \E i \in Jobs, j \in Jobs :
    /\ job[i].owner # job[j].owner
    /\ job[i].exit = "raised"
    /\ JobState(j) = "Uploading" /\ job[j].lastUpdate = 0
    /\ user_tasks[job[j].owner] = j

\* the awaits after Fetching at which a task can be cancelled: the transcode
\* child, the thumbnail child, an upload attempt, the delay between attempts
AfterFetchAwaits == {"L241", "L262", "L301", "L314"}

\* C19: a job whose task was cancelled while it awaited the transcode
\* child, the thumbnail child, an upload attempt or the retry delay, and has
\* finished, is Cancelled, has no child running and has no temp file.
C19_CancelAfterFetchCleansUp ==
  \A j \in Jobs :
    (Terminal(j) /\ job[j].cancelAt \in AfterFetchAwaits) =>
      /\ JobState(j) = "Cancelled"
      /\ "running" \notin Children(j)
      /\ ~job[j].tempFile

\* C20: when the upload loop of a job has ended, by a send_video call that
\* returned or by the third failure, the delays performed are one fewer
\* than the calls made.
C20_DelaysBetweenAttemptsOnly ==
  \A j \in Jobs :
    (job[j].delivered \/ job[j].pc = "L316" \/ job[j].exit = "upload_failed")
      => job[j].slept = RETRY_DELAY * (job[j].attempts - 1)

=============================================================================
